---------------------------- MODULE Spec2Model ----------------------------
(***************************************************************************)
(* Model of the OpenTofu controller of bagel-backend                       *)
(* (src/src/controllers/terrafrom/tofuInjector.ts): the command runner     *)
(* runCommands, the five request handlers tofuInit, tofuPlan, tofuApply,   *)
(* tofuDestroy and tofuPlanDeny, and the Deployment collection they write. *)
(*                                                                         *)
(* Node runs the handlers on one thread: a handler runs without            *)
(* interruption from one await to the next, and every database call takes  *)
(* effect atomically at the database.  An action of this model is one such *)
(* uninterrupted piece: the synchronous code up to an await together with  *)
(* the effect of the awaited call.                                         *)
(***************************************************************************)
EXTENDS Integers, Sequences, FiniteSets, TLC

\* Bounds of the model.
MaxRequests == 3
\* The requests that follow a history (LaterSpec); at most MaxRequests.
MaxLater == 2
\* The requests whose body is kept (ReqSpec); at most MaxRequests.
MaxReceived == 2
\* The longest workspace path, in characters, and the longest captured text,
\* in phrases and line ends, that a function is called with (FnSpec).
MaxPathLen == 3
MaxText == 3
\* The most data events of a process of the runner (RunSpec).
MaxChunks == 2

VARIABLES
    deployments,   \* the Deployment collection: deploymentId -> document
    req,           \* the requests: slot -> the handler's locals and position
    clock,         \* the wall clock read by new Date()
    response,      \* the response sent last: res.status(...).json(...)
    body,          \* req.body and req.params of the request received last
    run,           \* one call of runCommands, with its two processes
    call           \* one call of a pure function: its argument and result

vars == <<deployments, req, clock, response, body, run, call>>

Requests == 1..MaxRequests
\* generateDeploymentIdentifiers mints a new id for each deployment it is
\* asked for: here the number of the request that creates the deployment.
DeploymentIds == Requests

\* An absent deploymentId, spaceName (undefined in req.body).
NoId == 0
NoSpace == ""
\* exitCode: number | null.  <<n>> is the number n, <<>> is null.
Null == <<>>
ExitCodes == {<<0>>, <<1>>, Null}
\* The project collection is not written by this controller.
Projects == {"p1"}
ProjectIds == {"p1", "p0"}
SpaceNames == {NoSpace, "s1"}
\* process.env.DOCKER_IMAGE_NAME and getContainerIdsByImage(image_name).
Environments == {"ok", "noImage", "noContainers"}
StepKinds == {"plan", "apply", "destroy"}
\* What a process has written when it closes: <<stdout, stderr>>.
Outputs == {<<<<>>, <<>>>>, <<<<"o">>, <<"e">>>>}

---------------------------------------------------------------------------
\* Values of JavaScript

\* a || b on strings: the empty string is falsy.
Or(a, b) == IF a # <<>> THEN a ELSE b

\* The settled-once rule of a Promise: resolve and reject act on a pending
\* promise only.
Resolve(p) == IF p = "pending" THEN "resolved" ELSE p

Reject(p) == IF p = "pending" THEN "rejected" ELSE p

---------------------------------------------------------------------------
\* Text

\* A string is the sequence of its characters; a word that is never taken
\* apart ("cd", "&&", a command) is one element.
Backquote == "BACKQUOTE"
\* The class ["\s'$`\\] of the two replace calls; of \s the space, the tab and
\* the line feed.
Special == {"\"", " ", "\t", "\n", "'", "$", Backquote, "\\"}

\* workspacePath.replace(/(["\s'$`\\])/g, "\\$1")
RECURSIVE Escape(_)
Escape(path) ==
    IF path = <<>> THEN <<>>
    ELSE (IF Head(path) \in Special
          THEN <<"\\", Head(path)>> ELSE <<Head(path)>>) \o Escape(Tail(path))

\* commands.join(" && ")
RECURSIVE FullCmd(_)
FullCmd(commands) ==
    IF Len(commands) = 0 THEN <<>>
    ELSE IF Len(commands) = 1 THEN <<commands[1]>>
    ELSE <<commands[1], " ", "&&", " ">> \o FullCmd(Tail(commands))

\* `cd ${safePath} && ${fullCmd} 2>&1`
WrappedCmd(workspacePath, commands) ==
    <<"cd", " ">> \o Escape(workspacePath) \o <<" ", "&&", " ">>
        \o FullCmd(commands) \o <<" ", "2>&1">>

\* logFilePath = `${workspacePath}/${logFileName}`, the file name being
\* tofu_<timestamp>.log
LogFilePath(workspacePath) == workspacePath \o <<"/", "tofu.log">>

\* bash -c wrappedCmd: how bash reads the word after "cd ".  A backslash
\* outside quotes keeps the next character as it is, except a line feed: the
\* pair backslash, line feed is a line continuation and is dropped.  A blank
\* or a control operator that is not quoted ends the word; a quote, a dollar
\* sign or a backquote that is not quoted opens a quotation or an expansion.
Metachars == {" ", "\t", "\n", ";", "&&"}

Openers == {"\"", "'", "$", Backquote}

RECURSIVE ReadWord(_)
ReadWord(s) ==
    IF s = <<>> THEN [word |-> <<>>, rest |-> <<>>]
    ELSE IF s[1] = "\\"
    THEN IF Len(s) = 1 THEN [word |-> <<"\\">>, rest |-> <<>>]
         ELSE LET r == ReadWord(SubSeq(s, 3, Len(s))) IN
              IF s[2] = "\n" THEN r
              ELSE [word |-> <<s[2]>> \o r.word, rest |-> r.rest]
    ELSE IF s[1] \in Metachars THEN [word |-> <<>>, rest |-> s]
    ELSE IF s[1] \in Openers THEN [word |-> <<"(expansion)">>, rest |-> Tail(s)]
    ELSE LET r == ReadWord(Tail(s)) IN
         [word |-> <<s[1]>> \o r.word, rest |-> r.rest]

\* The directory the chain changes into, and what bash reads after it.
Bash(wrappedCmd) == ReadWord(SubSeq(wrappedCmd, 3, Len(wrappedCmd)))

---------------------------------------------------------------------------
\* parseTofuSummary

\* Captured text is a sequence of line ends and phrases.  A phrase is a piece
\* of a line with the decimal numerals that stand in it: the three tallies,
\* and text that matches none of the patterns.
NL == <<"\n">>

\* "Plan: <a> to add, <c> to change, <d> to destroy"
PlanPhrase(a, c, d) == <<"Plan:", a, c, d>>

\* "Apply complete! Resources: <a> added, <c> changed, <d> destroyed"
ApplyPhrase(a, c, d) == <<"Apply complete! Resources:", a, c, d>>

\* "Destroy complete! Resources: <d> destroyed"
DestroyPhrase(d) == <<"Destroy complete! Resources:", d>>

\* Other text, among it a "Plan:" that no tally follows.
Phrases ==
    {<<"x">>, <<"Plan:">>,
     PlanPhrase(<<3>>, <<1>>, <<2>>),
     ApplyPhrase(<<5>>, <<0>>, <<1>>),
     DestroyPhrase(<<0, 4>>)}

\* stdout.split("\n")
RECURSIVE Split(_)
Split(text) ==
    IF \A i \in 1..Len(text): text[i] # NL THEN <<text>>
    ELSE LET i == CHOOSE i \in 1..Len(text):
                      text[i] = NL /\ \A j \in 1..(i - 1): text[j] # NL IN
         <<SubSeq(text, 1, i - 1)>> \o Split(SubSeq(text, i + 1, Len(text)))

\* parseInt(digits, 10)
RECURSIVE ParseInt(_)
ParseInt(digits) ==
    IF digits = <<>> THEN 0
    ELSE 10 * ParseInt(SubSeq(digits, 1, Len(digits) - 1)) + digits[Len(digits)]

\* line.match(pattern): the leftmost match in the line, or null.  A pattern
\* is the words of a tally with its numerals, groups of them.
Match(line, words, groups) ==
    LET Hit(i) == line[i][1] = words /\ Len(line[i]) = groups + 1 IN
    IF \E i \in 1..Len(line): Hit(i)
    THEN line[CHOOSE i \in 1..Len(line): Hit(i) /\ \A j \in 1..(i - 1): ~Hit(j)]
    ELSE Null

\* Mutant of LineSummary: the apply pattern is tried before the plan pattern.
LineSummaryApplyFirst(line) ==
    LET planMatch == Match(line, "Plan:", 3)
        applyMatch == Match(line, "Apply complete! Resources:", 3)
        destroyMatch == Match(line, "Destroy complete! Resources:", 1) IN
    IF applyMatch # Null
    THEN [added |-> ParseInt(applyMatch[2]), changed |-> ParseInt(applyMatch[3]),
          destroyed |-> ParseInt(applyMatch[4])]
    ELSE IF planMatch # Null
    THEN [toAdd |-> ParseInt(planMatch[2]), toChange |-> ParseInt(planMatch[3]),
          toDestroy |-> ParseInt(planMatch[4])]
    ELSE IF destroyMatch # Null
    THEN [destroyed |-> ParseInt(destroyMatch[2])]
    ELSE Null

\* The body of the loop: the summary a line sets before the break, or null
\* when the line matches no pattern.
LineSummary(line) ==
    LET planMatch == Match(line, "Plan:", 3)
        applyMatch == Match(line, "Apply complete! Resources:", 3)
        destroyMatch == Match(line, "Destroy complete! Resources:", 1) IN
    IF planMatch # Null
    THEN [toAdd |-> ParseInt(planMatch[2]), toChange |-> ParseInt(planMatch[3]),
          toDestroy |-> ParseInt(planMatch[4])]
    ELSE IF applyMatch # Null
    THEN [added |-> ParseInt(applyMatch[2]), changed |-> ParseInt(applyMatch[3]),
          destroyed |-> ParseInt(applyMatch[4])]
    ELSE IF destroyMatch # Null
    THEN [destroyed |-> ParseInt(destroyMatch[2])]
    ELSE Null

\* Mutant of Scan: no break, the last line that matches decides.
RECURSIVE ScanLast(_)
ScanLast(lines) ==
    IF lines = <<>> THEN Null
    ELSE LET later == ScanLast(Tail(lines)) IN
         IF later # Null THEN later ELSE LineSummary(Head(lines))

\* for (const line of lines) { ... break; }
RECURSIVE Scan(_)
Scan(lines) ==
    IF lines = <<>> THEN Null
    ELSE LET summary == LineSummary(Head(lines)) IN
         IF summary # Null THEN summary ELSE Scan(Tail(lines))

ParseTofuSummary(stdout) == Scan(Split(stdout))

---------------------------------------------------------------------------
\* Steps and documents

\* Mutants of StepStatus: !result.exitCode, true of null as of 0; and a
\* killed process recorded as cancelled.
StepStatusNullOk(exitCode) ==
    IF exitCode \in {<<0>>, Null} THEN "successful" ELSE "failed"

StepStatusNullCancelled(exitCode) ==
    IF exitCode = <<0>> THEN "successful"
    ELSE IF exitCode = Null THEN "cancelled" ELSE "failed"

\* result.exitCode === 0 ? "successful" : "failed"
StepStatus(exitCode) == IF exitCode = <<0>> THEN "successful" ELSE "failed"

\* const combined = `${stdoutBuffer}${stderrBuffer}`
Combined(r) == r.stdoutBuffer \o r.stderrBuffer

\* The message of a step: combined || stdout || stderr, and for apply
\* stdout || stderr.
Message(kind, r) ==
    IF kind = "apply"
    THEN Or(r.stdoutBuffer, r.stderrBuffer)
    ELSE Or(Combined(r), Or(r.stdoutBuffer, r.stderrBuffer))

\* The subdocument a handler hands to $push, Deployment.create and
\* addDeploymentStep.  runCommands was called with enableLogging = false, so
\* result.logFileContent is "".
StepOf(kind, r) ==
    [step |-> kind,
     stepStatus |-> StepStatus(r.exitCode),
     message |-> Message(kind, r),
     logFileContent |-> <<>>]

\* The timestamp of a Step: the time at which the step is stored.
Stamped(e, now) ==
    [step |-> e.step, stepStatus |-> e.stepStatus, message |-> e.message,
     logFileContent |-> e.logFileContent, timestamp |-> now]

NewStep(kind, r, now) == Stamped(StepOf(kind, r), now)

\* Mutants of PullInit: a pull that empties steps, and no pull at all.
PullAll(steps) == <<>>

PullNone(steps) == steps

\* Mutant of PullInit: the pull takes the cancelled steps along.
PullInitAndCancelled(steps) ==
    SelectSeq(steps, LAMBDA e: e.step # "init" /\ e.stepStatus # "cancelled")

\* { $pull: { steps: { step: "init" } } }
PullInit(steps) == SelectSeq(steps, LAMBDA e: e.step # "init")

\* Mutant of Push: the step is put in front of the others.
PushFront(steps, step) == <<step>> \o steps

\* { $push: { steps: step } }
Push(steps, step) == Append(steps, step)

IsPlan(e) == e.step = "plan"

HasPlan(steps) == \E i \in 1..Len(steps): IsPlan(steps[i])

\* The positional operator steps.$ : the first element the query matched.
FirstPlan(steps) == CHOOSE i \in 1..Len(steps):
    IsPlan(steps[i]) /\ \A j \in 1..(i - 1): ~IsPlan(steps[j])

Count(steps, kind) == Cardinality({i \in 1..Len(steps): steps[i].step = kind})

---------------------------------------------------------------------------
\* Requests

Fresh ==
    [kind |-> "none", pc |-> "new", deploymentId |-> NoId,
     projectId |-> "", spaceName |-> NoSpace,
     proc |-> "none", promise |-> "none", exitCode |-> Null,
     stdoutBuffer |-> <<>>, stderrBuffer |-> <<>>]

\* A request that has been answered: its locals go, its process stays.
Done(q) == [Fresh EXCEPT !.pc = "done", !.proc = q.proc, !.promise = q.promise]

\* res.status(status).json({ error }), and the res.json of tofuPlanDeny.
Answer(kind, status, deploymentId) ==
    [kind |-> kind, status |-> status, deploymentId |-> deploymentId,
     exitCode |-> Null]

\* res.json({ command, deploymentId, ...result }) of a step handler.
AnswerResult(q, deploymentId) ==
    [kind |-> q.kind, status |-> 200, deploymentId |-> deploymentId,
     exitCode |-> q.exitCode]

\* Slots are taken in order.
CanStart(r) == req[r].pc = "new" /\ (IF r = 1 THEN TRUE ELSE req[r - 1].pc # "new")

\* spawn("docker", dockerArgs) at the end of the synchronous part of a step
\* handler; the handler then awaits the runner's promise.
Spawned(kind, deploymentId, projectId, spaceName) ==
    [Fresh EXCEPT !.kind = kind, !.pc = "running", !.deploymentId = deploymentId,
                  !.projectId = projectId, !.spaceName = spaceName,
                  !.proc = "running", !.promise = "pending"]

\* No request received yet, no call of the runner or of a function followed.
NoBody == [kind |-> "none", spaceName |-> NoSpace, deploymentId |-> NoId]

NoRun ==
    [containerId |-> <<>>, workspacePath |-> <<>>, commands |-> <<>>,
     enableLogging |-> FALSE, dockerArgs |-> <<>>, logFilePath |-> <<>>,
     proc |-> "none", stage |-> 0, events |-> 0, written |-> <<>>,
     stdoutBuffer |-> <<>>, stderrBuffer |-> <<>>, code |-> Null,
     combined |-> <<>>, logReadProc |-> "none", logReadArgs |-> <<>>,
     logEvents |-> 0, logBuffer |-> <<>>, timeoutId |-> "none",
     logFileContent |-> <<>>, awaiting |-> FALSE,
     promise |-> "none", result |-> Null]

NoCall == [fn |-> "none", arg |-> <<>>, done |-> FALSE, result |-> Null]

Init ==
    /\ deployments = <<>>
    /\ req = [r \in Requests |-> Fresh]
    /\ clock = 1
    /\ response = Answer("none", 0, NoId)
    /\ body = NoBody
    /\ run = NoRun
    /\ call = NoCall

---------------------------------------------------------------------------
\* runCommands: the events of the primary process

\* The handler that awaits runCommands goes on after the promise resolved:
\* the database call it issues next.
AfterRunCommands(q) ==
    IF q.kind = "init"
    THEN IF q.deploymentId # NoId THEN "findOne" ELSE "create"
    ELSE "addDeploymentStep"

\* Mutant of OnClose: a non-zero exit code taken for a failure of the runner.
OnCloseRejectNonZero(q, code, out) ==
    IF code # <<0>>
    THEN [q EXCEPT !.proc = "closed", !.promise = Reject(q.promise)]
    ELSE [q EXCEPT !.proc = "closed", !.promise = Resolve(q.promise),
                   !.exitCode = code, !.stdoutBuffer = out[1],
                   !.stderrBuffer = out[2], !.pc = AfterRunCommands(q)]

\* proc.on("close"): resolve({exitCode: code, stdout, stderr, combined, ...}).
\* A process that could not be spawned closes, after its error event, with
\* the negative errno as code.  resolve on a promise that is pending resumes
\* the awaiting handler; on a settled promise it does nothing.
OnClose(q, code, out) ==
    IF q.promise = "pending"
    THEN [q EXCEPT !.proc = "closed", !.promise = Resolve(q.promise),
                   !.exitCode = code, !.stdoutBuffer = out[1],
                   !.stderrBuffer = out[2], !.pc = AfterRunCommands(q)]
    ELSE [q EXCEPT !.proc = "closed", !.promise = Resolve(q.promise)]

ProcClose(r) ==
    /\ req[r].proc \in {"running", "errored"}
    /\ \E code \in (IF req[r].proc = "running" THEN ExitCodes ELSE {<<-2>>}),
          out \in (IF req[r].proc = "running" THEN Outputs ELSE {<<<<>>, <<>>>>}):
          req' = [req EXCEPT ![r] = OnClose(@, code, out)]
    /\ UNCHANGED <<deployments, clock, response, body, run, call>>

\* Mutant of OnError: the error is swallowed.
OnErrorSwallowed(q) == [q EXCEPT !.proc = "errored"]

\* proc.on("error"): reject(err).
OnError(q) == [q EXCEPT !.proc = "errored", !.promise = Reject(q.promise)]

\* The error event of a process that could not be spawned.  When it rejects
\* the promise, the catch block of the awaiting handler answers 500.
ProcError(r) ==
    /\ req[r].proc = "running"
    /\ LET q == OnError(req[r]) IN
       IF q.promise = "rejected" /\ req[r].promise = "pending"
       THEN /\ req' = [req EXCEPT ![r] = Done(q)]
            /\ response' = Answer(q.kind, 500, NoId)
       ELSE /\ req' = [req EXCEPT ![r] = q]
            /\ UNCHANGED response
    /\ UNCHANGED <<deployments, clock, body, run, call>>

---------------------------------------------------------------------------
\* The request handlers

\* Mutant of Precheck: the project is looked up before the body is checked.
PrecheckProjectFirst(kind, spaceName, deploymentId, projectId, env) ==
    IF projectId \notin Projects THEN 404
    ELSE IF spaceName = NoSpace THEN 400
    ELSE IF kind # "init" /\ deploymentId = NoId THEN 400
    ELSE IF env # "ok" THEN 500
    ELSE 0

\* The checks of a step handler before it spawns, in the order of the code:
\* spaceName, deploymentId (plan, apply, destroy), the project, the image and
\* its containers.  0 when all pass.
Precheck(kind, spaceName, deploymentId, projectId, env) ==
    IF spaceName = NoSpace THEN 400
    ELSE IF kind # "init" /\ deploymentId = NoId THEN 400
    ELSE IF projectId \notin Projects THEN 404
    ELSE IF env # "ok" THEN 500
    ELSE 0

\* The deployment ids a request can name: those of the deployments there are,
\* and one of no deployment (request r creates none once it names an id).
KnownIds(r) == DOMAIN deployments \cup {r}

\* const { spaceName, deploymentId } = req.body of a step handler, with its
\* kind: what a request asks for.
Body(kind, spaceName, deploymentId) ==
    [kind |-> kind, spaceName |-> spaceName, deploymentId |-> deploymentId]

\* A step handler, from the request to its first await or to its answer.
StartStepWith(r, kind, spaceName, deploymentId, projectId, env) ==
    /\ LET status == Precheck(kind, spaceName, deploymentId, projectId, env) IN
       IF status # 0
       THEN /\ req' = [req EXCEPT ![r] = Done(Fresh)]
            /\ response' = Answer(kind, status, NoId)
       ELSE /\ req' = [req EXCEPT ![r] =
                          Spawned(kind, deploymentId, projectId, spaceName)]
            /\ UNCHANGED response
    /\ UNCHANGED <<deployments, clock, run, call>>

StartStep(r, kind) ==
    /\ CanStart(r)
    /\ \E spaceName \in SpaceNames, deploymentId \in {NoId} \cup KnownIds(r),
          projectId \in ProjectIds, env \in Environments:
          StartStepWith(r, kind, spaceName, deploymentId, projectId, env)
    /\ UNCHANGED body

\* tofuInit up to await runCommands(...)
TofuInit(r) == StartStep(r, "init")

\* Mutant of TofuInitFindOne: a deployment that is not found is created.
TofuInitFindOneUpsert(r) ==
    /\ req[r].pc = "findOne"
    /\ req' = [req EXCEPT ![r].pc =
                  IF req[r].deploymentId \in DOMAIN deployments THEN "pull" ELSE "create"]
    /\ UNCHANGED <<deployments, clock, response, body, run, call>>

\* const existing = await Deployment.findOne({ deploymentId }), and the 404
\* when there is none.
TofuInitFindOne(r) ==
    /\ req[r].pc = "findOne"
    /\ IF req[r].deploymentId \in DOMAIN deployments
       THEN /\ req' = [req EXCEPT ![r].pc = "pull"]
            /\ UNCHANGED response
       ELSE /\ req' = [req EXCEPT ![r] = Done(@)]
            /\ response' = Answer("init", 404, NoId)
    /\ UNCHANGED <<deployments, clock, body, run, call>>

\* await Deployment.updateOne({ deploymentId }, { $pull: ... })
TofuInitPull(r) ==
    /\ req[r].pc = "pull"
    /\ deployments' = [deployments EXCEPT ![req[r].deploymentId].steps = PullInit(@)]
    /\ req' = [req EXCEPT ![r].pc = "push"]
    /\ UNCHANGED <<clock, response, body, run, call>>

\* await Deployment.updateOne({ deploymentId }, { $push: ... }); res.json(...)
TofuInitPush(r) ==
    /\ req[r].pc = "push"
    /\ deployments' = [deployments EXCEPT ![req[r].deploymentId].steps =
                          Push(@, NewStep("init", req[r], clock))]
    /\ clock' = clock + 1
    /\ req' = [req EXCEPT ![r] = Done(@)]
    /\ response' = AnswerResult(req[r], req[r].deploymentId)
    /\ UNCHANGED <<body, run, call>>

\* The document of Deployment.create(...)
NewDeployment(d, q, now) ==
    [deploymentId |-> d,
     projectId |-> q.projectId,
     spaceId |-> q.spaceName,
     deploymentName |-> d,
     steps |-> <<NewStep("init", q, now)>>,
     startedAt |-> now]

\* generateDeploymentIdentifiers(...); await Deployment.create(...);
\* res.json({deploymentId: finalDeploymentId, ...})
TofuInitCreate(r) ==
    /\ req[r].pc = "create"
    /\ LET d == r IN
       /\ deployments' = deployments @@ (d :> NewDeployment(d, req[r], clock))
       /\ req' = [req EXCEPT ![r] = Done(@)]
       /\ response' = AnswerResult(req[r], d)
    /\ clock' = clock + 1
    /\ UNCHANGED <<body, run, call>>

\* tofuPlan, tofuApply, tofuDestroy up to await runCommands(...)
TofuPlan(r) == StartStep(r, "plan")

TofuApply(r) == StartStep(r, "apply")

TofuDestroy(r) == StartStep(r, "destroy")

\* DeploymentRepository.addDeploymentStep: appends the step to the steps of
\* the deployment, and fails with NotFound when the deployment is unknown.
AddDeploymentStep(steps, step) == Append(steps, step)

\* await DeploymentRepository.addDeploymentStep({...}); res.json(...), or the
\* catch block's res.status(500) when the repository throws.
RecordStep(r, kind) ==
    /\ req[r].pc = "addDeploymentStep"
    /\ req[r].kind = kind
    /\ IF req[r].deploymentId \in DOMAIN deployments
       THEN /\ deployments' = [deployments EXCEPT ![req[r].deploymentId].steps =
                                  AddDeploymentStep(@, NewStep(kind, req[r], clock))]
            /\ clock' = clock + 1
            /\ response' = AnswerResult(req[r], req[r].deploymentId)
       ELSE /\ response' = Answer(kind, 500, NoId)
            /\ UNCHANGED <<deployments, clock>>
    /\ req' = [req EXCEPT ![r] = Done(@)]
    /\ UNCHANGED <<body, run, call>>

TofuPlanRecord(r) == RecordStep(r, "plan")

TofuApplyRecord(r) == RecordStep(r, "apply")

TofuDestroyRecord(r) == RecordStep(r, "destroy")

\* Mutant of CancelPlan: the cancelled step is appended as a new entry.
CancelPlanAppend(steps, now) ==
    Append(steps, [steps[FirstPlan(steps)] EXCEPT !.stepStatus = "cancelled",
                                                  !.timestamp = now])

\* Mutant of CancelPlan: the update lands on the plan step that is last.
CancelPlanLast(steps, now) ==
    LET i == CHOOSE i \in 1..Len(steps):
                 IsPlan(steps[i]) /\ \A j \in (i + 1)..Len(steps): ~IsPlan(steps[j]) IN
    [steps EXCEPT ![i] = [@ EXCEPT !.stepStatus = "cancelled", !.timestamp = now]]

\* $set: { 'steps.$.stepStatus': 'cancelled', 'steps.$.timestamp': new Date() }
\* on the first element that matched 'steps.step': 'plan'.
CancelPlan(steps, now) ==
    [steps EXCEPT ![FirstPlan(steps)] =
        [@ EXCEPT !.stepStatus = "cancelled", !.timestamp = now]]

\* updateResult.matchedCount of the query { deploymentId, 'steps.step': 'plan' }
MatchedCount(d) ==
    IF d \in DOMAIN deployments /\ HasPlan(deployments[d].steps) THEN 1 ELSE 0

\* Mutant of DenyStatus: matchedCount is not looked at.
DenyStatusAlwaysOk(matchedCount) == 200

\* if (updateResult.matchedCount === 0) 404, else res.json({ success: true })
DenyStatus(matchedCount) == IF matchedCount = 0 THEN 404 ELSE 200

\* tofuPlanDeny, from the request to its answer.
TofuPlanDenyWith(r, deploymentId, projectId) ==
    /\ req' = [req EXCEPT ![r] = Done(Fresh)]
    /\ IF deploymentId = NoId
       THEN /\ response' = Answer("cancel", 400, deploymentId)
            /\ UNCHANGED <<deployments, clock>>
       ELSE IF projectId \notin Projects
       THEN /\ response' = Answer("cancel", 404, deploymentId)
            /\ UNCHANGED <<deployments, clock>>
       ELSE LET matchedCount == MatchedCount(deploymentId) IN
            /\ IF matchedCount = 0
               THEN UNCHANGED <<deployments, clock>>
               ELSE /\ deployments' = [deployments EXCEPT ![deploymentId].steps =
                                          CancelPlan(@, clock)]
                    /\ clock' = clock + 1
            /\ response' = Answer("cancel", DenyStatus(matchedCount), deploymentId)
    /\ UNCHANGED <<run, call>>

TofuPlanDeny(r) ==
    /\ CanStart(r)
    /\ \E deploymentId \in {NoId} \cup KnownIds(r), projectId \in ProjectIds:
          TofuPlanDenyWith(r, deploymentId, projectId)
    /\ UNCHANGED body

---------------------------------------------------------------------------
\* The specifications

Starts ==
    \E r \in Requests:
        \/ TofuInit(r)
        \/ TofuPlan(r)
        \/ TofuApply(r)
        \/ TofuDestroy(r)
        \/ TofuPlanDeny(r)

Steps ==
    \E r \in Requests:
        \/ ProcClose(r)
        \/ ProcError(r)
        \/ TofuInitFindOne(r)
        \/ TofuInitPull(r)
        \/ TofuInitPush(r)
        \/ TofuInitCreate(r)
        \/ TofuPlanRecord(r)
        \/ TofuApplyRecord(r)
        \/ TofuDestroyRecord(r)

\* Requests arrive at any time: handlers interleave at their awaits.
Next == Starts \/ Steps

Spec == Init /\ [][Next]_vars

\* One request at a time: a request arrives after the one before was answered.
Quiescent == \A q \in Requests: req[q].pc \in {"new", "done"}

SeqNext == (Quiescent /\ Starts) \/ Steps

SeqSpec == Init /\ [][SeqNext]_vars

\* The same handlers, with the body of each request kept for inspection.
ReceiveStep(r, kind) ==
    /\ CanStart(r)
    /\ \E spaceName \in SpaceNames, deploymentId \in {NoId} \cup KnownIds(r),
          projectId \in ProjectIds, env \in Environments:
          /\ StartStepWith(r, kind, spaceName, deploymentId, projectId, env)
          /\ body' = Body(kind, spaceName, deploymentId)

ReceiveCancel(r) ==
    /\ CanStart(r)
    /\ \E deploymentId \in {NoId} \cup KnownIds(r), projectId \in ProjectIds:
          /\ TofuPlanDenyWith(r, deploymentId, projectId)
          /\ body' = Body("cancel", NoSpace, deploymentId)

ReqStarts ==
    \E r \in 1..MaxReceived:
        \/ ReceiveStep(r, "init")
        \/ ReceiveStep(r, "plan")
        \/ ReceiveStep(r, "apply")
        \/ ReceiveStep(r, "destroy")
        \/ ReceiveCancel(r)

ReqNext == (Quiescent /\ ReqStarts) \/ Steps

\* One request at a time, each with its body on record.
ReqSpec == Init /\ [][ReqNext]_vars

\* A ledger with a history: the state after an init without deploymentId, which
\* created the deployment, and a plan on it, both answered, and then a cancel
\* of the plan or none.  The deployment has an id that no later request is
\* given by generateDeploymentIdentifiers.
Seeded == MaxRequests + 1

\* The locals of a handler whose runCommands resolved.
Ran(kind, deploymentId, code) ==
    OnClose(Spawned(kind, deploymentId, "p1", "s1"), code, <<<<"o">>, <<"e">>>>)

\* The deployment after the init and the plan.
Planned(code) ==
    [NewDeployment(Seeded, Ran("init", NoId, <<0>>), 1) EXCEPT !.steps =
        AddDeploymentStep(@, NewStep("plan", Ran("plan", Seeded, code), 2))]

LaterInit ==
    /\ \E code \in ExitCodes, cancelled \in BOOLEAN:
          IF cancelled
          THEN /\ deployments =
                     (Seeded :> [Planned(code) EXCEPT !.steps = CancelPlan(@, 3)])
               /\ response = Answer("cancel", DenyStatus(1), Seeded)
               /\ clock = 4
          ELSE /\ deployments = (Seeded :> Planned(code))
               /\ response = AnswerResult(Ran("plan", Seeded, code), Seeded)
               /\ clock = 3
    /\ req = [r \in Requests |-> Fresh]
    /\ body = NoBody
    /\ run = NoRun
    /\ call = NoCall

LaterStarts ==
    \E r \in 1..MaxLater:
        \/ TofuInit(r)
        \/ TofuPlan(r)
        \/ TofuApply(r)
        \/ TofuDestroy(r)
        \/ TofuPlanDeny(r)

LaterNext == (Quiescent /\ LaterStarts) \/ Steps

\* One request at a time, on the ledger with a history.
LaterSpec == LaterInit /\ [][LaterNext]_vars

---------------------------------------------------------------------------
\* runCommands, event by event

ContainerIds == {<<"c1">>}

WorkspacePaths == {<<"w">>, <<"w", " ", "w">>, <<"w", "\t">>}

CommandSeqs == {<<"tofu init">>, <<"tofu init", "tofu plan">>}

\* What a data event brings: a line of text, line end included.
ChunkTexts == {<<<<"x">>, NL>>, <<PlanPhrase(<<3>>, <<1>>, <<2>>), NL>>}

LogChunk == <<<<"log">>, NL>>

\* workspacePath.includes(c)
Includes(path, c) == \E i \in 1..Len(path): path[i] = c

\* Mutant of DockerArgs: FORCE_COLOR is not forced.
DockerArgsNoColor(containerId, wrappedCmd) ==
    << <<"exec">>, <<"-i">>, <<"-e">>, <<"TF_IN_AUTOMATION", "=", "true">>,
       containerId, <<"bash">>, <<"-c">>, wrappedCmd >>

\* const dockerArgs = ["exec", "-i", "-e", "TF_IN_AUTOMATION=true", "-e",
\* "FORCE_COLOR=0", containerId, "bash", "-c", wrappedCmd]
DockerArgs(containerId, wrappedCmd) ==
    << <<"exec">>, <<"-i">>, <<"-e">>, <<"TF_IN_AUTOMATION", "=", "true">>,
       <<"-e">>, <<"FORCE_COLOR", "=", "0">>,
       containerId, <<"bash">>, <<"-c">>, wrappedCmd >>

\* dockerArgs.splice(-3, 0, ...items)
Splice(args, items) ==
    SubSeq(args, 1, Len(args) - 3) \o items \o SubSeq(args, Len(args) - 2, Len(args))

\* "-e", "TF_LOG=INFO", "-e", `TF_LOG_PATH=${logFilePath}`
LogSettings(logFilePath) ==
    << <<"-e">>, <<"TF_LOG", "=", "INFO">>,
       <<"-e">>, <<"TF_LOG_PATH", "=">> \o logFilePath >>

\* ["exec", "-i", containerId, "cat", escapedLogPath]
LogReadArgs(containerId, logFilePath) ==
    << <<"exec">>, <<"-i">>, containerId, <<"cat">>, Escape(logFilePath) >>

\* docker exec [OPTIONS] CONTAINER COMMAND [ARG...]: the values of the -e
\* options, in their order.  The options end at the first argument that is
\* none: the container.
RECURSIVE ExecEnv(_, _)
ExecEnv(args, i) ==
    IF i > Len(args) THEN <<>>
    ELSE IF args[i] = <<"-i">> THEN ExecEnv(args, i + 1)
    ELSE IF args[i] = <<"-e">> /\ i < Len(args)
    THEN <<args[i + 1]>> \o ExecEnv(args, i + 2)
    ELSE <<>>

\* The stream of the runner on which a write of the chain arrives.  Writer 0
\* is the shell itself (cd, bash), writer i the command i of the chain; "2>&1"
\* at the end of wrappedCmd redirects descriptor 2 of the last command.
Captured(writer, fd, commands) ==
    IF fd = 2 /\ writer = Len(commands) THEN 1 ELSE fd

\* The value the promise is resolved with.
Result(q) ==
    [exitCode |-> q.code, stdout |-> q.stdoutBuffer, stderr |-> q.stderrBuffer,
     combined |-> q.combined, logFileContent |-> q.logFileContent,
     summary |-> ParseTofuSummary(q.stdoutBuffer)]

\* resolve({...}) at the end of the close handler.
Deliver(q) ==
    [q EXCEPT !.awaiting = FALSE,
              !.promise = Resolve(q.promise),
              !.result = IF q.promise = "pending" THEN Result(q) ELSE q.result]

\* runCommands(containerId, workspacePath, commands, enableLogging) up to
\* spawn("docker", dockerArgs) and the registration of the handlers.
RunCommands ==
    /\ run.proc = "none"
    /\ \E containerId \in ContainerIds, workspacePath \in WorkspacePaths,
          commands \in CommandSeqs, enableLogging \in BOOLEAN:
          LET dockerArgs == DockerArgs(containerId, WrappedCmd(workspacePath, commands))
              logging == enableLogging /\ ~Includes(workspacePath, " ")
              logFilePath == IF logging THEN LogFilePath(workspacePath) ELSE <<>> IN
          run' = [NoRun EXCEPT
                     !.containerId = containerId, !.workspacePath = workspacePath,
                     !.commands = commands, !.enableLogging = enableLogging,
                     !.logFilePath = logFilePath,
                     !.dockerArgs = IF logging
                                    THEN Splice(dockerArgs, LogSettings(logFilePath))
                                    ELSE dockerArgs,
                     !.proc = "running", !.promise = "pending"]
    /\ UNCHANGED <<deployments, req, clock, response, body, call>>

\* The writes of the chain that arrive on stream fd of the runner: of the
\* shell, or of a command not before the one that wrote last, on a
\* descriptor of its own.
Writes(fd) ==
    {w \in [writer: run.stage..Len(run.commands), fd: {1, 2}, data: ChunkTexts]:
        Captured(w.writer, w.fd, run.commands) = fd}

\* proc.stdout.on("data"): stdoutBuffer += data
OnStdoutData ==
    /\ run.proc = "running" /\ run.events < MaxChunks
    /\ \E w \in Writes(1):
          run' = [run EXCEPT !.stage = w.writer, !.events = @ + 1,
                             !.written = @ \o w.data,
                             !.stdoutBuffer = @ \o w.data]
    /\ UNCHANGED <<deployments, req, clock, response, body, call>>

\* proc.stderr.on("data"): stderrBuffer += data
OnStderrData ==
    /\ run.proc = "running" /\ run.events < MaxChunks
    /\ \E w \in Writes(2):
          run' = [run EXCEPT !.stage = w.writer, !.events = @ + 1,
                             !.written = @ \o w.data,
                             !.stderrBuffer = @ \o w.data]
    /\ UNCHANGED <<deployments, req, clock, response, body, call>>

\* proc.on("error"): reject(err)
OnProcError ==
    /\ run.proc = "running" /\ run.events = 0
    /\ run' = [run EXCEPT !.proc = "errored", !.promise = Reject(@)]
    /\ UNCHANGED <<deployments, req, clock, response, body, call>>

\* proc.on("close") up to await new Promise(resolveLog), or, when there is no
\* log to read or spawn throws, to resolve.
OnProcClose ==
    /\ run.proc \in {"running", "errored"}
    /\ \E code \in (IF run.proc = "running" THEN ExitCodes ELSE {<<-2>>}),
          thrown \in BOOLEAN:
          LET q == [run EXCEPT !.proc = "closed", !.code = code,
                               !.combined = run.stdoutBuffer \o run.stderrBuffer] IN
          IF run.enableLogging /\ run.logFilePath # <<>>
          THEN LET args == LogReadArgs(q.containerId, q.logFilePath) IN
               IF thrown
               THEN run' = Deliver([q EXCEPT !.logReadArgs = args])
               ELSE run' = [q EXCEPT
                               !.logReadProc = "running",
                               !.logReadArgs = args,
                               !.timeoutId = "set", !.awaiting = TRUE]
          ELSE ~thrown /\ run' = Deliver(q)
    /\ UNCHANGED <<deployments, req, clock, response, body, call>>

\* logReadProc.stdout.on("data"): logBuffer += data
OnLogData ==
    /\ run.logReadProc \in {"running", "killed"} /\ run.logEvents < MaxChunks
    /\ run' = [run EXCEPT !.logEvents = @ + 1, !.logBuffer = @ \o LogChunk]
    /\ UNCHANGED <<deployments, req, clock, response, body, call>>

\* The timeout of 3000 ms: logReadProc.kill()
OnLogTimeout ==
    /\ run.timeoutId = "set"
    /\ run' = [run EXCEPT !.timeoutId = "fired", !.logReadProc = "killed"]
    /\ UNCHANGED <<deployments, req, clock, response, body, call>>

\* clearTimeout(timeoutId)
ClearTimeout(timeoutId) == IF timeoutId = "set" THEN "cleared" ELSE timeoutId

\* logReadProc.on("close"): clearTimeout; logFileContent = logBuffer;
\* resolveLog(), and the close handler of the primary process goes on to
\* resolve.
OnLogClose ==
    /\ run.logReadProc \in {"running", "killed", "errored"}
    /\ LET q == [run EXCEPT !.logReadProc = "closed",
                            !.timeoutId = ClearTimeout(@),
                            !.logFileContent = run.logBuffer] IN
       run' = IF run.awaiting THEN Deliver(q) ELSE q
    /\ UNCHANGED <<deployments, req, clock, response, body, call>>

\* logReadProc.on("error"): clearTimeout; resolveLog(), and the close handler
\* of the primary process goes on to resolve.
OnLogError ==
    /\ run.logReadProc \in {"running", "killed"}
    /\ LET q == [run EXCEPT !.logReadProc = "errored",
                            !.timeoutId = ClearTimeout(@)] IN
       run' = IF run.awaiting THEN Deliver(q) ELSE q
    /\ UNCHANGED <<deployments, req, clock, response, body, call>>

RunNext ==
    \/ RunCommands
    \/ OnStdoutData
    \/ OnStderrData
    \/ OnProcError
    \/ OnProcClose
    \/ OnLogData
    \/ OnLogTimeout
    \/ OnLogClose
    \/ OnLogError

\* One call of the runner.
RunSpec == Init /\ [][RunNext]_vars

---------------------------------------------------------------------------
\* The functions, called on their own

PathChars == {"a", " ", "'", "\n", ";", "\\"}

Paths == UNION {[1..n -> PathChars]: n \in 0..MaxPathLen}

Texts == UNION {[1..n -> Phrases \cup {NL}]: n \in 0..MaxText}

Called(fn, arg) == [fn |-> fn, arg |-> arg, done |-> FALSE, result |-> Null]

\* The module is loaded and a function is about to be called.
FnInit ==
    /\ call \in {Called("safePath", path): path \in Paths}
                  \cup {Called("parseTofuSummary", text): text \in Texts}
    /\ deployments = <<>>
    /\ req = [r \in Requests |-> Fresh]
    /\ clock = 1
    /\ response = Answer("none", 0, NoId)
    /\ body = NoBody
    /\ run = NoRun

\* The escaping of runCommands, for the one command of a handler: safePath,
\* wrappedCmd, and escapedLogPath.
SafePath ==
    /\ call.fn = "safePath" /\ ~call.done
    /\ call' = [call EXCEPT !.done = TRUE,
                            !.result =
                               [safePath |-> Escape(call.arg),
                                wrappedCmd |-> WrappedCmd(call.arg, <<"tofu">>),
                                escapedLogPath |-> Escape(LogFilePath(call.arg))]]
    /\ UNCHANGED <<deployments, req, clock, response, body, run>>

CallParseTofuSummary ==
    /\ call.fn = "parseTofuSummary" /\ ~call.done
    /\ call' = [call EXCEPT !.done = TRUE, !.result = ParseTofuSummary(call.arg)]
    /\ UNCHANGED <<deployments, req, clock, response, body, run>>

FnNext == SafePath \/ CallParseTofuSummary

FnSpec == FnInit /\ [][FnNext]_vars

---------------------------------------------------------------------------
\* What a step of the system did

StepsOf(d) == deployments[d].steps

NonInit(steps) == SelectSeq(steps, LAMBDA e: e.step # "init")

CancelledCount(steps) ==
    Cardinality({i \in 1..Len(steps): steps[i].stepStatus = "cancelled"})

\* Request r was answered in this step.
Answered(r) == req[r].pc # "done" /\ req'[r].pc = "done"

\* Request r wrote its step and was answered 200 in this step.
Recorded(r) ==
    /\ req[r].pc \in {"push", "create", "addDeploymentStep"}
    /\ Answered(r)
    /\ response'.status = 200

\* Request r was a cancel that succeeded in this step.
Cancels(r) ==
    /\ req[r].pc = "new"
    /\ Answered(r)
    /\ response'.kind = "cancel"
    /\ response'.status = 200

---------------------------------------------------------------------------
\* The claims

\* C1: init runs that follow one another on a deployment leave exactly one
\* init step in it, and the step has the status and the message of the result
\* of the run that was answered last.
C1_InitIdempotent ==
    [][/\ (Quiescent =>
              \A d \in DOMAIN deployments: Count(StepsOf(d), "init") = 1)'
       /\ \A r \in Requests:
             (req[r].pc = "push" /\ Answered(r)) =>
                LET s == deployments'[req[r].deploymentId].steps IN
                /\ Count(s, "init") = 1
                /\ \A i \in 1..Len(s):
                      s[i].step = "init" =>
                         /\ s[i].stepStatus =
                               (IF req[r].exitCode = <<0>> THEN "successful" ELSE "failed")
                         /\ s[i].message = req[r].stdoutBuffer \o req[r].stderrBuffer]_vars

\* Two init runs on the one deployment there is, after the run that created
\* it: its only step is the init step of the third write.
C1_Witness ==
    /\ Quiescent
    /\ \E d \in DOMAIN deployments:
          /\ DOMAIN deployments = {d}
          /\ Len(StepsOf(d)) = 1
          /\ StepsOf(d)[1].step = "init"
          /\ StepsOf(d)[1].timestamp = deployments[d].startedAt + 2
          /\ response = [kind |-> "init", status |-> 200, deploymentId |-> d,
                         exitCode |-> <<1>>]

\* C2: whatever the interleaving of the requests, a deployment has at most one
\* init step.
C2_AtMostOneInit ==
    \A d \in DOMAIN deployments: Count(StepsOf(d), "init") <= 1

\* C3: a mutation of the ledger is atomic: while the init replace of a request
\* is half done (init step pulled, new one not yet pushed), no other request
\* changes the deployment.
C3_AtomicMutations ==
    [][\A r \in Requests:
          (req[r].pc = "push" /\ req'[r].pc = "push") =>
             deployments'[req[r].deploymentId] = deployments[req[r].deploymentId]]_vars

\* C4: a plan, apply or destroy run appends exactly one step at the end of the
\* steps of its deployment; the number of steps of each of these kinds grows
\* by one with each such run and changes with nothing else, and no step of
\* these kinds is ever removed or replaced by another.
C4_AppendOnly ==
    [][/\ \A d \in DOMAIN deployments:
             LET old == NonInit(StepsOf(d))
                 new == NonInit(deployments'[d].steps) IN
             /\ d \in DOMAIN deployments'
             /\ Len(new) >= Len(old)
             /\ \A i \in 1..Len(old):
                   new[i].step = old[i].step /\ new[i].message = old[i].message
             /\ \A k \in StepKinds:
                   Count(new, k) = Count(old, k) +
                      (IF \E r \in Requests:
                             /\ Recorded(r) /\ req[r].kind = k
                             /\ req[r].deploymentId = d
                       THEN 1 ELSE 0)
       /\ \A r \in Requests:
             (Recorded(r) /\ req[r].kind \in StepKinds) =>
                LET old == StepsOf(req[r].deploymentId)
                    new == deployments'[req[r].deploymentId].steps IN
                /\ Len(new) = Len(old) + 1
                /\ SubSeq(new, 1, Len(old)) = old
                /\ new[Len(new)].step = req[r].kind]_vars

\* Two plan runs on a deployment: two plan steps.
C4_Witness ==
    \E d \in DOMAIN deployments:
        /\ Count(StepsOf(d), "plan") = 2
        /\ response.kind = "plan" /\ response.status = 200

\* C5: a cancel that succeeds changes the status (to cancelled) and the
\* timestamp of one plan step and nothing else: not the number or the order
\* of the steps, not another field of the step, not another step, not another
\* attribute of the deployment, not another deployment.
C5_CancelInPlace ==
    [][\A r \in Requests:
          Cancels(r) =>
             LET d == response'.deploymentId
                 old == StepsOf(d)
                 new == deployments'[d].steps IN
             /\ DOMAIN deployments' = DOMAIN deployments
             /\ \A x \in DOMAIN deployments \ {d}: deployments'[x] = deployments[x]
             /\ [deployments'[d] EXCEPT !.steps = old] = deployments[d]
             /\ Len(new) = Len(old)
             /\ \E i \in 1..Len(old):
                   /\ old[i].step = "plan"
                   /\ new[i].stepStatus = "cancelled"
                   /\ [new[i] EXCEPT !.stepStatus = old[i].stepStatus,
                                     !.timestamp = old[i].timestamp] = old[i]
                   /\ \A j \in 1..Len(old) \ {i}: new[j] = old[j]]_vars

\* A cancel succeeded on a deployment of two steps.
C5_Witness ==
    /\ response.kind = "cancel" /\ response.status = 200
    /\ LET s == StepsOf(response.deploymentId) IN
       /\ Len(s) = 2
       /\ s[1].step = "init" /\ s[1].stepStatus # "cancelled"
       /\ s[2].step = "plan" /\ s[2].stepStatus = "cancelled"

\* C6: a cancel that names a deployment that does not exist, or one without a
\* plan step, is answered 404 and changes nothing in the ledger.
C6_CancelNotFound ==
    [][\A r \in Requests:
          (req[r].pc = "new" /\ Answered(r) /\ response'.kind = "cancel") =>
             LET d == response'.deploymentId IN
             (d # NoId /\ (d \notin DOMAIN deployments \/ ~HasPlan(StepsOf(d)))) =>
                /\ response'.status = 404
                /\ deployments' = deployments]_vars

\* A cancel on a deployment that has no plan step was answered 404.
C6_Witness ==
    /\ response.kind = "cancel" /\ response.status = 404
    /\ response.deploymentId \in DOMAIN deployments
    /\ ~HasPlan(StepsOf(response.deploymentId))

\* C7: only plan steps are cancelled, and the number of cancelled steps of a
\* deployment grows only in a step in which a cancel on it succeeds.
C7_CancelledOnlyByCancel ==
    [][\A d \in DOMAIN deployments':
          LET new == deployments'[d].steps
              old == IF d \in DOMAIN deployments THEN StepsOf(d) ELSE <<>> IN
          /\ \A i \in 1..Len(new):
                new[i].stepStatus = "cancelled" => new[i].step = "plan"
          /\ CancelledCount(new) > CancelledCount(old) =>
                \E r \in Requests: Cancels(r) /\ response'.deploymentId = d]_vars

\* A plan step is cancelled.
C7_Witness ==
    \E d \in DOMAIN deployments:
        \E i \in 1..Len(StepsOf(d)):
            StepsOf(d)[i].step = "plan" /\ StepsOf(d)[i].stepStatus = "cancelled"

\* C8: the step a run records is successful when the exit code is 0 and failed
\* when it is anything else, null included.
C8_StatusFromExitCode ==
    [][\A r \in Requests:
          Recorded(r) =>
             LET s == deployments'[response'.deploymentId].steps IN
             /\ Len(s) > 0
             /\ s[Len(s)].step = req[r].kind
             /\ s[Len(s)].stepStatus = "successful" <=> req[r].exitCode = <<0>>
             /\ s[Len(s)].stepStatus = "failed" <=> req[r].exitCode # <<0>>]_vars

\* A run whose process was killed by a signal recorded a failed step.
C8_Witness ==
    /\ response.status = 200 /\ response.exitCode = Null
    /\ response.kind \in {"init"} \cup StepKinds
    /\ LET s == StepsOf(response.deploymentId) IN
       s[Len(s)].step = response.kind /\ s[Len(s)].stepStatus = "failed"

\* C9: the close of a running process resolves the runner's promise whatever
\* the exit code, and a run with a non-zero exit code on a deployment that
\* exists (or an init that creates one) is answered 200 with that exit code
\* and records a failed step.
C9_NonZeroExitIsData ==
    [][\A r \in Requests:
          /\ (req[r].proc = "running" /\ req'[r].proc = "closed") =>
                /\ req'[r].promise = "resolved"
                /\ req'[r].exitCode \in ExitCodes
                /\ req'[r].pc \in {"findOne", "create", "addDeploymentStep"}
          /\ ( /\ req[r].pc \in {"push", "create", "addDeploymentStep"}
               /\ req[r].exitCode \notin {<<0>>, Null}
               /\ req[r].kind = "init" \/ req[r].deploymentId \in DOMAIN deployments
               /\ Answered(r) ) =>
                /\ response'.status = 200
                /\ response'.kind = req[r].kind
                /\ response'.exitCode = req[r].exitCode
                /\ LET s == deployments'[response'.deploymentId].steps IN
                   s[Len(s)].step = req[r].kind /\ s[Len(s)].stepStatus = "failed"]_vars

\* A run that exited with 1 was answered 200 and recorded a failed step.
C9_Witness ==
    /\ response.status = 200 /\ response.exitCode = <<1>>
    /\ response.kind \in {"init"} \cup StepKinds
    /\ LET s == StepsOf(response.deploymentId) IN
       s[Len(s)].step = response.kind /\ s[Len(s)].stepStatus = "failed"

\* C10: the runner's promise is rejected only by the error event of its
\* process; the request is then answered 500 and writes nothing to the ledger,
\* then or later; and the promise settles once: it is settled when the process
\* has raised error or close and a settled promise does not change, also when
\* close follows error.
C10_SpawnError ==
    [][\A r \in Requests:
          /\ (req'[r].promise = "rejected" /\ req[r].promise # "rejected") =>
                /\ req[r].promise = "pending"
                /\ req[r].proc = "running" /\ req'[r].proc = "errored"
                /\ Answered(r)
                /\ response'.status = 500
          /\ (req'[r].promise = "rejected" /\ req'[r] # req[r]) =>
                deployments' = deployments
          /\ req[r].promise \in {"resolved", "rejected"} =>
                req'[r].promise = req[r].promise
          /\ req'[r].proc \in {"errored", "closed"} => req'[r].promise # "pending"]_vars

\* A process raised error and then close: the promise stays rejected.
C10_Witness ==
    \E r \in Requests:
        req[r].pc = "done" /\ req[r].proc = "closed" /\ req[r].promise = "rejected"

\* C11: every execution is recorded: when a request whose command chain ran to
\* its close is answered, the ledger holds a step of the kind of the request,
\* written in that step of the system with the status of the run's exit code.
C11_EveryExecutionRecorded ==
    [][\A r \in Requests:
          (req[r].promise = "resolved" /\ Answered(r)) =>
             \E d \in DOMAIN deployments':
                \E i \in 1..Len(deployments'[d].steps):
                   LET e == deployments'[d].steps[i] IN
                   /\ e.step = req[r].kind
                   /\ e.stepStatus =
                         (IF req[r].exitCode = <<0>> THEN "successful" ELSE "failed")
                   /\ e.timestamp = clock]_vars

\* C18: an init request that names a deployment that does not exist changes
\* nothing in the ledger, from its arrival to its answer, and the answer that
\* follows the look-up is 404.
C18_InitUnknownDeployment ==
    [][\A r \in Requests:
          ( /\ req[r].kind = "init"
            /\ req[r].deploymentId # NoId
            /\ req[r].deploymentId \notin DOMAIN deployments
            /\ req'[r] # req[r] ) =>
             /\ deployments' = deployments
             /\ req[r].pc = "findOne" =>
                   /\ Answered(r)
                   /\ response'.kind = "init"
                   /\ response'.status = 404]_vars

\* An init that named an unknown deployment ran its chain and was answered
\* 404, with a deployment in the ledger.
C18_Witness ==
    /\ response.kind = "init" /\ response.status = 404
    /\ DOMAIN deployments # {}
    /\ \E r \in Requests:
          /\ req[r].pc = "done" /\ req[r].proc = "closed"
          /\ req[r].promise = "resolved"
          /\ IF r = MaxRequests THEN TRUE ELSE req[r + 1].pc = "new"

\* C20: cancelled is final for a plan step: a cancelled step keeps its place
\* among the plan, apply and destroy steps of its deployment, its kind, its
\* message and its status cancelled in every step of the system, and a plan
\* run that follows adds a step of its own, with the status of its own exit
\* code, and changes no step there was.
C20_CancelledIsTerminal ==
    [][/\ \A d \in DOMAIN deployments:
             LET old == NonInit(StepsOf(d))
                 new == NonInit(deployments'[d].steps) IN
             \A i \in 1..Len(old):
                old[i].stepStatus = "cancelled" =>
                   /\ i <= Len(new)
                   /\ new[i].step = old[i].step
                   /\ new[i].message = old[i].message
                   /\ new[i].stepStatus = "cancelled"
       /\ \A r \in Requests:
             (Recorded(r) /\ req[r].kind = "plan") =>
                LET old == StepsOf(req[r].deploymentId)
                    new == deployments'[req[r].deploymentId].steps IN
                /\ new = Append(old, new[Len(new)])
                /\ new[Len(new)].step = "plan"
                /\ new[Len(new)].stepStatus =
                      (IF req[r].exitCode = <<0>> THEN "successful" ELSE "failed")]_vars

\* After a cancel and a plan run on the deployment: the cancelled plan step,
\* and after it the step of the later plan run.
C20_Witness ==
    \E d \in DOMAIN deployments:
        /\ Len(StepsOf(d)) = 3
        /\ StepsOf(d)[1].step = "init"
        /\ StepsOf(d)[2].step = "plan" /\ StepsOf(d)[2].stepStatus = "cancelled"
        /\ StepsOf(d)[3].step = "plan" /\ StepsOf(d)[3].stepStatus = "successful"
        /\ StepsOf(d)[3].timestamp > StepsOf(d)[2].timestamp

\* The body lacks a field its handler requires: spaceName for init, plan,
\* apply and destroy, deploymentId for plan, apply, destroy and cancel.
Lacks(b) ==
    \/ b.kind \in {"init"} \cup StepKinds /\ b.spaceName = NoSpace
    \/ b.kind \in StepKinds \cup {"cancel"} /\ b.deploymentId = NoId

\* C19: a request that lacks a required field is answered 400 in the step in
\* which it is received: it spawns no process, it leaves the ledger as it was,
\* and it is done.
C19_ValidationFirst ==
    [][\A r \in Requests:
          (req[r].pc = "new" /\ req'[r].pc # "new" /\ Lacks(body')) =>
             /\ response'.status = 400
             /\ response'.kind = body'.kind
             /\ req'[r].pc = "done"
             /\ req'[r].proc = "none"
             /\ deployments' = deployments
             /\ clock' = clock]_vars

\* A plan request with a spaceName and no deploymentId was answered 400, with
\* a deployment in the ledger.
C19_Witness ==
    /\ body = [kind |-> "plan", spaceName |-> "s1", deploymentId |-> NoId]
    /\ response.kind = "plan" /\ response.status = 400
    /\ DOMAIN deployments # {}

\* The characters the escaping is said to quote.
Quoted == {"\"", " ", "\t", "\n", "'", "$", Backquote, "\\"}

\* Where the character i of a text stands once a backslash is put before
\* each quoted character.
QuotedPos(text, i) == i + Cardinality({j \in 1..i: text[j] \in Quoted})

\* e is text with a backslash before each quoted character, and nothing else.
IsQuotingOf(e, text) ==
    /\ Len(e) = Len(text) + Cardinality({j \in 1..Len(text): text[j] \in Quoted})
    /\ \A i \in 1..Len(text):
          /\ e[QuotedPos(text, i)] = text[i]
          /\ text[i] \in Quoted => e[QuotedPos(text, i) - 1] = "\\"

\* C16: the escaped workspace path and the escaped log path are the paths with
\* a backslash before each double quote, white space, single quote, dollar
\* sign, backquote and backslash and nothing else, and the chain changes into
\* the directory the path names and goes on with the commands.
C16_PathShellEscaped ==
    (call.fn = "safePath" /\ call.done) =>
       /\ IsQuotingOf(call.result.safePath, call.arg)
       /\ IsQuotingOf(call.result.escapedLogPath, call.arg \o <<"/", "tofu.log">>)
       /\ Bash(call.result.wrappedCmd).word = call.arg
       /\ Bash(call.result.wrappedCmd).rest = <<" ", "&&", " ", "tofu", " ", "2>&1">>

\* The place of a phrase of a text: the number of its line.
LineNo(text, i) == 1 + Cardinality({j \in 1..(i - 1): text[j] = NL})

TallyWords ==
    <<"Plan:", "Apply complete! Resources:", "Destroy complete! Resources:">>

\* The phrases of a text that are a tally of pattern k.
Tallies(text, k) ==
    {i \in 1..Len(text): text[i][1] = TallyWords[k] /\ Len(text[i]) > 1}

\* The number a numeral of one or two digits stands for.
Val(digits) == IF Len(digits) = 1 THEN digits[1] ELSE 10 * digits[1] + digits[2]

ShapeOf(phrase, k) ==
    IF k = 1
    THEN [toAdd |-> Val(phrase[2]), toChange |-> Val(phrase[3]),
          toDestroy |-> Val(phrase[4])]
    ELSE IF k = 2
    THEN [added |-> Val(phrase[2]), changed |-> Val(phrase[3]),
          destroyed |-> Val(phrase[4])]
    ELSE [destroyed |-> Val(phrase[2])]

\* C17: the summary of a text is the shape of the first line that holds a
\* tally, the later lines left aside; in that line the plan tally goes before
\* the apply tally and that before the destroy tally, and of two tallies of a
\* pattern the left one counts; a text without a tally has the summary null.
C17_FirstMatchWins ==
    (call.fn = "parseTofuSummary" /\ call.done) =>
       LET text == call.arg
           all == Tallies(text, 1) \cup Tallies(text, 2) \cup Tallies(text, 3) IN
       IF all = {} THEN call.result = Null
       ELSE LET first == CHOOSE l \in 1..(Len(text) + 1):
                            /\ \E i \in all: LineNo(text, i) = l
                            /\ \A i \in all: LineNo(text, i) >= l
                In(k) == {i \in Tallies(text, k): LineNo(text, i) = first}
                k == IF In(1) # {} THEN 1 ELSE IF In(2) # {} THEN 2 ELSE 3
                i == CHOOSE i \in In(k): \A j \in In(k): i <= j IN
            call.result = ShapeOf(text[i], k)

\* A destroy tally on the first line and a plan tally on the second: the
\* summary is that of the destroy tally, its numeral 04 read as 4.
C17_Witness ==
    /\ call.fn = "parseTofuSummary" /\ call.done
    /\ call.arg = <<DestroyPhrase(<<0, 4>>), NL, PlanPhrase(<<3>>, <<1>>, <<2>>)>>
    /\ call.result = [destroyed |-> 4]

\* C12: when the timeout of the log read-back fires, the read-back process is
\* killed, and the result the runner resolves with has an empty
\* logFileContent: nothing the process wrote before is given out.
C12_TimeoutEmptyLog ==
    run.timeoutId = "fired" =>
       /\ run.logReadProc # "running"
       /\ run.promise = "resolved" => run.result.logFileContent = <<>>

\* C13: the log read-back never holds the result back: once the primary
\* process has closed the promise is settled, whatever the read-back process
\* does; and a read-back that fails leaves logFileContent empty and the
\* promise resolved as it would have been.
C13_ReadBackNeverDelays ==
    /\ run.proc = "closed" => run.promise # "pending"
    /\ run.logReadProc = "errored" =>
          /\ run.promise # "pending"
          /\ run.promise = "resolved" => run.result.logFileContent = <<>>

\* C14: combined is all that the two streams brought, in the order in which
\* it arrived.
C14_CombinedInArrivalOrder ==
    run.promise = "resolved" => run.result.combined = run.written

\* The value docker exec gives the variable name in the environment of the
\* command: that of the last -e option that sets it.
ExecSetting(args, name) ==
    LET env == ExecEnv(args, 2)
        at == {i \in 1..Len(env): env[i][1] = name /\ env[i][2] = "="} IN
    IF at = {} THEN <<"(unset)">>
    ELSE LET i == CHOOSE i \in at: \A j \in at: j <= i IN
         SubSeq(env[i], 3, Len(env[i]))

\* C15: the docker exec that a call of the runner spawns for the command chain
\* sets TF_IN_AUTOMATION to true and FORCE_COLOR to 0 among its options,
\* whatever the container, the path, the commands and enableLogging are.
C15_ForcedEnvironment ==
    run.proc # "none" =>
       LET args == run.dockerArgs IN
       /\ args[1] = <<"exec">>
       /\ args[Len(args)] = WrappedCmd(run.workspacePath, run.commands)
       /\ ExecSetting(args, "TF_IN_AUTOMATION") = <<"true">>
       /\ ExecSetting(args, "FORCE_COLOR") = <<"0">>

\* A call with logging, which adds two settings to the arguments, has closed.
C15_Witness ==
    /\ run.proc = "closed"
    /\ run.enableLogging /\ run.logFilePath # <<>>
    /\ Len(run.commands) = 2
    /\ Len(run.dockerArgs) = 14

\* The characters \\s of a pattern matches, of those a path of the model has.
Whitespace == {" ", "\t", "\n"}

HasWhitespace(path) == \E c \in Whitespace: Includes(path, c)

\* spawn("docker", ["exec", "-i", containerId, "cat", escapedLogPath]) was
\* called.
Issued(q) == q.logReadArgs # <<>>

\* C21: the log read-back is issued if and only if enableLogging is true and
\* the workspace path has no whitespace character in it; it is issued once,
\* and only when the process of the command chain has closed; with
\* enableLogging false or whitespace in the path no second process is started
\* and logFileContent stays empty.
C21_ReadBackIffLogging ==
    [][LET q == run'
           wanted == q.enableLogging /\ ~HasWhitespace(q.workspacePath) IN
       /\ Issued(q) => wanted /\ q.proc = "closed"
       /\ wanted /\ q.proc = "closed" => Issued(q)
       /\ Issued(run) => q.logReadArgs = run.logReadArgs
       /\ q.logReadProc = "running" /\ run.logReadProc # "running" => ~Issued(run)
       /\ ~wanted => q.logReadProc = "none" /\ q.logFileContent = <<>>]_vars

\* The attributes of a deployment that say which one it is.
Identity(x) ==
    [deploymentId |-> x.deploymentId, deploymentName |-> x.deploymentName,
     projectId |-> x.projectId, spaceId |-> x.spaceId, startedAt |-> x.startedAt]

\* C22: an init run on a deployment that exists changes nothing but the init
\* entry.  The run writes twice, and nothing else writes in between: the first write
\* leaves the plan, apply and destroy steps as they are and in their order,
\* and no init step; the second appends the init step of the run as the last
\* step and leaves the others as they are.  Neither changes the identity
\* attributes of the deployment, nor another deployment.
C22_InitFrame ==
    [][\A r \in Requests:
          LET d == req[r].deploymentId
              old == StepsOf(d)
              new == deployments'[d].steps IN
          /\ (req[r].pc = "pull" /\ req'[r].pc # "pull") =>
                /\ req'[r].pc = "push"
                /\ new = NonInit(old)
          /\ (req[r].pc \in {"pull", "push"} /\ req'[r].pc = req[r].pc) =>
                deployments' = deployments
          /\ (req[r].pc = "push" /\ req'[r].pc # "push") =>
                /\ Answered(r)
                /\ response' = [kind |-> "init", status |-> 200, deploymentId |-> d,
                                exitCode |-> req[r].exitCode]
                /\ Count(old, "init") = 0
                /\ Len(new) = Len(old) + 1
                /\ SubSeq(new, 1, Len(old)) = old
                /\ new[Len(new)].step = "init"
                /\ new[Len(new)].stepStatus =
                      (IF req[r].exitCode = <<0>> THEN "successful" ELSE "failed")
                /\ \A i \in 1..Len(old): new[Len(new)].timestamp > old[i].timestamp
          /\ req[r].pc \in {"pull", "push"} =>
                /\ DOMAIN deployments' = DOMAIN deployments
                /\ \A x \in DOMAIN deployments \ {d}: deployments'[x] = deployments[x]
                /\ Identity(deployments'[d]) = Identity(deployments[d])]_vars

\* An init run on the deployment whose plan step had been cancelled: the
\* cancelled plan step as it was, and after it the init step of the run.
C22_Witness ==
    /\ response.kind = "init" /\ response.status = 200
    /\ response.deploymentId = Seeded
    /\ LET s == StepsOf(Seeded) IN
       /\ Len(s) = 2
       /\ s[1].step = "plan" /\ s[1].stepStatus = "cancelled" /\ s[1].timestamp = 3
       /\ s[2].step = "init" /\ s[2].timestamp = 4
    /\ deployments[Seeded].startedAt = 1

\* C23: with more than one plan step in the deployment, a cancel that succeeds
\* changes exactly one of them, the one that comes first in steps, and leaves
\* the status and the timestamp of every later plan step as they were: a plan
\* step recorded after a cancel keeps the status its exit code gave it through
\* the next cancel.
C23_CancelHitsEarliestPlan ==
    [][\A r \in Requests:
          Cancels(r) =>
             LET d == response'.deploymentId
                 old == StepsOf(d)
                 new == deployments'[d].steps
                 plans == {i \in 1..Len(old): IsPlan(old[i])}
                 changed == {i \in 1..Len(old): new[i] # old[i]} IN
             /\ Len(new) = Len(old)
             /\ plans # {}
             /\ \E i \in plans:
                   /\ \A j \in plans: i <= j
                   /\ changed = {i}
                   /\ new[i].stepStatus = "cancelled"
                   /\ new[i].timestamp = clock
                   /\ \A j \in plans \ {i}:
                         /\ new[j].stepStatus = old[j].stepStatus
                         /\ new[j].timestamp = old[j].timestamp
                         /\ new[j].timestamp < new[i].timestamp]_vars

\* After plan, cancel, plan, cancel: the first plan step is cancelled and
\* carries the time of the second cancel, the second plan step is as its run
\* recorded it.
C23_Witness ==
    /\ response.kind = "cancel" /\ response.status = 200
    /\ LET s == StepsOf(Seeded) IN
       /\ Len(s) = 3
       /\ s[1].step = "init"
       /\ s[2].step = "plan" /\ s[2].stepStatus = "cancelled" /\ s[2].timestamp = 5
       /\ s[3].step = "plan" /\ s[3].stepStatus = "failed" /\ s[3].timestamp = 4

=============================================================================
